---- MODULE Spec2Model ----
(***************************************************************************)
(* Mentorix: the Completion Service (GeminiLLM.run, src/gemini_llm.py) and *)
(* the generation pipeline of src/teaching_agent_team.py (response         *)
(* validation, Response Segmenter, Question/Answer Splitter, document      *)
(* set).                                                                   *)
(*                                                                         *)
(* Texts are sequences of lexemes.  A lexeme is a piece of text that every *)
(* pattern of the program either matches from its first character or does  *)
(* not touch; TokLen gives the number of characters it stands for.         *)
(***************************************************************************)
EXTENDS Integers, Sequences, FiniteSets, TLC

VARIABLES
    retries,          \* GeminiLLM.run: the retries argument
    attempt,          \* GeminiLLM.run: the loop variable (0-based)
    history,          \* GeminiLLM.run: outcome of each attempt made so far
    waits,            \* GeminiLLM.run: seconds slept after each attempt made so far
    result,           \* GeminiLLM.run: how the call ended
    rpc,              \* GeminiLLM.run: "loop" or "done"
    content,          \* generate block: the text returned by gemini.run
    total_questions,  \* generate block: pattern count + active custom count
    given,            \* the parts a templated response was composed of
    sections,         \* generate block: the local sections dict
    questions_only,   \* generate block: question text of the splitter
    answers_only,     \* generate block: answer text of the splitter
    pdfs,             \* st.session_state["pdfs"]: name -> (title, text) given to create_pdf
    display,          \* st.session_state["sections"]: name -> preview text
    generation_id,    \* st.session_state["generation_id"]: number of ids issued
    gpc,              \* generate block: position in the handler
    mode,             \* the "Input Mode" radio
    topic,            \* the "Topic" text input
    syllabus_text,    \* text extracted from the uploaded syllabus
    question_patterns,\* st.session_state["question_patterns"]
    custom_questions, \* st.session_state["custom_questions"]
    bloom_taxonomy,   \* st.session_state["bloom_taxonomy"]
    taxonomy_report,  \* what the page says about the taxonomy distribution
    generate_shown,   \* whether the page shows the Generate button
    prompt,           \* generate block: the parts of the prompt given to gemini.run
    run_calls,        \* number of calls of gemini.run made by the page
    pdf_text,         \* create_pdf: the content argument
    pdf_content,      \* create_pdf: content after the replacements of lines 49-50
    safe_content,     \* create_pdf: safe_content of line 53
    layout,           \* create_pdf: the lines laid out on the pages
    ppc               \* create_pdf: position in the function

runVars == <<retries, attempt, history, waits, result, rpc>>
genVars == <<content, total_questions, given, sections, questions_only, answers_only,
             pdfs, display, generation_id, gpc>>
inputVars == <<mode, topic, syllabus_text>>
builderVars == <<question_patterns, custom_questions, bloom_taxonomy,
                 taxonomy_report, generate_shown>>
callVars == <<prompt, run_calls>>
pdfVars == <<pdf_text, pdf_content, safe_content, layout, ppc>>
pageVars == <<inputVars, builderVars, callVars, pdfVars>>
vars == <<retries, attempt, history, waits, result, rpc,
          content, total_questions, given, sections, questions_only,
          answers_only, pdfs, display, generation_id, gpc,
          mode, topic, syllabus_text, question_patterns, custom_questions,
          bloom_taxonomy, taxonomy_report, generate_shown, prompt, run_calls,
          pdf_text, pdf_content, safe_content, layout, ppc>>

(***************************************************************************)
(* Bounds                                                                  *)
(***************************************************************************)
MaxRetries == 3
MaxLen == 3

(***************************************************************************)
(* Lexemes                                                                 *)
(***************************************************************************)
W   == "W"     \* a sentence of plain prose (80 characters), no marker in it
V   == "V"     \* another sentence of plain prose
NL  == "NL"    \* "\n"
CR  == "CR"    \* "\r"
QX  == "QX"    \* "QUOTA_EXHAUSTED"
N1  == "N1"    \* "SECTION 1: STRUCTURED NOTES"
R   == "R"     \* "SECTION 2: LEARNING ROADMAP"
S   == "S"     \* "SECTION 3: IMPORTANT RESOURCES"
Q4  == "Q4"    \* "SECTION 4: QUESTION BANK WITH ANSWERS"
QP  == "QP"    \* "SECTION 1: QUESTIONS ONLY (FOR STUDENTS)"
N1t == "N1t"   \* "1. STRUCTURED NOTES"
Rt  == "Rt"    \* "2. LEARNING ROADMAP"
St  == "St"    \* "3. IMPORTANT RESOURCES"
Q4t == "Q4t"   \* "4. QUESTION BANK"
QC  == "QC"    \* "QUESTIONS:"
A2  == "A2"    \* "SECTION 2: ANSWER KEY"
AK  == "AK"    \* "ANSWER KEY:"
QB  == "QB"    \* "Question 1 (2 Marks):"
AB  == "AB"    \* "Answer 1:"
NAK == "NAK"   \* "No answer key found"
HDR == "HDR"   \* the question paper instructions with the mark distribution
AKSEP == "AKSEP" \* the rule, "ANSWER KEY", the rule
SP  == " "     \* a space
TW  == "DBMS"  \* a word typed as the topic
SY  == "Unit 1: Relational model"  \* text extracted from a syllabus file

\* number of characters of each lexeme
TokLen(t) ==
    CASE t = W -> 80 [] t = V -> 80 [] t = NL -> 1 [] t = CR -> 1
      [] t = QX -> 15 [] t = N1 -> 27 [] t = R -> 27 [] t = S -> 30
      [] t = Q4 -> 37 [] t = QP -> 40 [] t = N1t -> 19 [] t = Rt -> 19
      [] t = St -> 22 [] t = Q4t -> 16 [] t = QC -> 10 [] t = A2 -> 21
      [] t = AK -> 11 [] t = QB -> 21 [] t = AB -> 9 [] t = NAK -> 19
      [] t = HDR -> 269 [] t = AKSEP -> 92

RECURSIVE TextLen(_)
TextLen(s) == IF s = <<>> THEN 0 ELSE TokLen(Head(s)) + TextLen(Tail(s))

Min(xs) == CHOOSE x \in xs : \A y \in xs : x <= y
Max(xs) == CHOOSE x \in xs : \A y \in xs : x >= y

\* Python s[a:b], 0-based, for 0 <= a and b <= len(s)
Slice(s, a, b) == SubSeq(s, a + 1, b)

\* str.strip(): "\n", "\r" and " " are the whitespace of these texts
IsWs(t) == t \in {NL, CR, SP}
Strip(s) ==
    LET solid == {i \in 1..Len(s) : ~IsWs(s[i])} IN
    IF solid = {} THEN <<>> ELSE SubSeq(s, Min(solid), Max(solid))

\* str.replace("\r", "")
RECURSIVE RemoveCR(_)
RemoveCR(s) ==
    IF s = <<>> THEN <<>>
    ELSE IF Head(s) = CR THEN RemoveCR(Tail(s))
    ELSE <<Head(s)>> \o RemoveCR(Tail(s))

\* is_quota_exhausted: text.startswith("QUOTA_EXHAUSTED")
is_quota_exhausted(text) == Len(text) > 0 /\ text[1] = QX

(***************************************************************************)
(* The page: input, Bloom detection, the three builder lists               *)
(***************************************************************************)
MaxPatterns == 2
MaxCustom == 1
MaxBuckets == 2
MaxWords == 3
MaxGenerations == 2

RECURSIVE SeqSum(_)
SeqSum(ns) == IF ns = <<>> THEN 0 ELSE Head(ns) + SeqSum(Tail(ns))
Range(f) == {f[i] : i \in DOMAIN f}

\* list.pop(i), 1-based
RemoveAt(xs, i) == SubSeq(xs, 1, i - 1) \o SubSeq(xs, i + 1, Len(xs))

BLOOM_LEVELS ==
    <<"Remembering", "Understanding", "Applying", "Analyzing", "Evaluating",
      "Creating">>

BLOOM_KEYWORDS ==
    [level \in Range(BLOOM_LEVELS) |->
        CASE level = "Remembering" ->
               <<"define", "list", "name", "state", "identify", "recall",
                 "what is", "mention">>
          [] level = "Understanding" ->
               <<"explain", "summarize", "describe", "differentiate",
                 "classify", "interpret", "outline">>
          [] level = "Applying" ->
               <<"apply", "solve", "use", "demonstrate", "calculate",
                 "implement", "show how">>
          [] level = "Analyzing" ->
               <<"analyze", "compare", "contrast", "examine", "categorize",
                 "investigate", "why">>
          [] level = "Evaluating" ->
               <<"evaluate", "justify", "critique", "assess", "argue",
                 "recommend", "validate">>
          [] level = "Creating" ->
               <<"design", "create", "develop", "construct", "propose",
                 "formulate", "build">>]

\* Words of a typed question.  A keyword is a word; "Define" is "define"
\* with a capital; "because" has the keyword "use" inside it and
\* "statement" begins with the keyword "state"; "tcp" has no keyword.
QuestionWords ==
    {SP, "Define", "list", "explain", "because", "why", "statement",
     "design", "justify", "what is", "tcp"}

\* str.lower()
LowerWord(w) == IF w = "Define" THEN "define" ELSE w
LowerText(s) == [i \in DOMAIN s |-> LowerWord(s[i])]

\* keyword in word and word.startswith(keyword), for a keyword of
\* BLOOM_KEYWORDS (matching is by characters and case-sensitive)
WordHas(w, keyword) ==
    w = keyword \/ <<w, keyword>> \in {<<"because", "use">>, <<"statement", "state">>}
WordStartsWith(w, keyword) ==
    w = keyword \/ <<w, keyword>> \in {<<"statement", "state">>}

\* text.startswith(keyword), keyword in text
StartsWith(text, keyword) == text # <<>> /\ WordStartsWith(text[1], keyword)
Occurs(text, keyword) == \E i \in DOMAIN text : WordHas(text[i], keyword)

\* scores[level] of one level: 3 for a keyword the text starts with, 1 for
\* another keyword found in it
Score(text, level) ==
    3 * Cardinality({k \in Range(BLOOM_KEYWORDS[level]) : StartsWith(text, k)})
    + Cardinality({k \in Range(BLOOM_KEYWORDS[level]) :
                     ~StartsWith(text, k) /\ Occurs(text, k)})

\* the scores dict, in the order of its keys
Scores(text) ==
    <<Score(text, BLOOM_LEVELS[1]), Score(text, BLOOM_LEVELS[2]),
      Score(text, BLOOM_LEVELS[3]), Score(text, BLOOM_LEVELS[4]),
      Score(text, BLOOM_LEVELS[5]), Score(text, BLOOM_LEVELS[6])>>

\* max(scores, key=scores.get): the last of the keys that have the greatest
\* value
FirstMax_Last(scores) ==
    LET top == Max(Range(scores)) IN
    Max({j \in DOMAIN scores : scores[j] = top})

\* max(scores, key=scores.get): the first key, in the order of the dict,
\* that has the greatest value
FirstMax(scores) ==
    LET top == Max(Range(scores)) IN
    Min({j \in DOMAIN scores : scores[j] = top})

\* lines 257-272
detect_bloom_level(question_text) ==
    LET text == LowerText(Strip(question_text)) IN
    IF text = <<>> THEN "Not detected"
    ELSE
      LET scores == Scores(text)
          best_level == FirstMax(scores)
      IN IF scores[best_level] > 0 THEN BLOOM_LEVELS[best_level]
         ELSE "Understanding"

\* the session defaults and the rows the buttons append
DefaultPattern == [count |-> 4, marks |-> 2]
AddedPattern == [count |-> 2, marks |-> 5]
AddedCustom == [text |-> <<>>, marks |-> 2, bloom_level |-> "Understanding"]
AddedBucket == [level |-> "Understanding", count |-> 1]

input_ready(m, t, s) ==
    \/ m = "Enter Topic" /\ Strip(t) # <<>>
    \/ m = "Upload Syllabus" /\ Strip(s) # <<>>

generated_questions_count(patterns) ==
    SeqSum([i \in DOMAIN patterns |-> patterns[i].count])

\* the custom questions that count: those with text left after trimming
IsActive(q) == Strip(q.text) # <<>>
active_custom_questions_KeepBlank(cqs) ==
    [i \in DOMAIN cqs |->
        [text |-> Strip(cqs[i].text), marks |-> cqs[i].marks,
         bloom_level |-> IF cqs[i].bloom_level \in Range(BLOOM_LEVELS)
                         THEN cqs[i].bloom_level ELSE "Understanding"]]
active_custom_questions(cqs) ==
    LET kept == SelectSeq(cqs, IsActive) IN
    [i \in DOMAIN kept |->
        [text |-> Strip(kept[i].text), marks |-> kept[i].marks,
         bloom_level |-> IF kept[i].bloom_level \in Range(BLOOM_LEVELS)
                         THEN kept[i].bloom_level ELSE "Understanding"]]

\* ascending sequence of a finite set of integers
RECURSIVE Sorted(_)
Sorted(ns) ==
    IF ns = {} THEN <<>> ELSE <<Min(ns)>> \o Sorted(ns \ {Min(ns)})

\* one line "- {count} questions of {marks} marks each" per pattern and per
\* custom question, without adding up the rows that have the same marks
question_instruction_PerRow(patterns, custom_qs) ==
    [i \in DOMAIN patterns |-> [count |-> patterns[i].count,
                                marks |-> patterns[i].marks]]
    \o [i \in DOMAIN custom_qs |-> [count |-> 1, marks |-> custom_qs[i].marks]]

\* the lines "- {count} questions of {marks} marks each", each kept as its
\* two numbers; patterns is st.session_state["question_patterns"]
question_instruction(patterns, custom_qs) ==
    LET marks_map == [m \in {patterns[i].marks : i \in DOMAIN patterns}
                            \cup {custom_qs[i].marks : i \in DOMAIN custom_qs} |->
            SeqSum([i \in DOMAIN patterns |->
                      IF patterns[i].marks = m THEN patterns[i].count ELSE 0])
            + Cardinality({i \in DOMAIN custom_qs : custom_qs[i].marks = m})]
        order == Sorted(DOMAIN marks_map)
    IN [i \in DOMAIN order |-> [count |-> marks_map[order[i]], marks |-> order[i]]]

\* "No specific ... distribution specified" is the empty list of lines
taxonomy_instruction(taxonomy) ==
    [i \in DOMAIN taxonomy |-> [count |-> taxonomy[i].count,
                                level |-> taxonomy[i].level]]

\* "No custom teacher-framed questions provided." is the empty list of lines
custom_questions_instruction(custom_qs) ==
    [i \in DOMAIN custom_qs |->
        [marks |-> custom_qs[i].marks, bloom_level |-> custom_qs[i].bloom_level,
         text |-> custom_qs[i].text]]

\* the parts of the prompt that vary
NoPrompt ==
    [topic |-> <<>>, syllabus |-> <<>>, question_structure |-> <<>>,
     taxonomy |-> <<>>, custom |-> <<>>, gen_q_count |-> 0,
     custom_q_count |-> 0, total_q |-> 0]
master_prompt(topic_text, syllabus, gen_q_count, custom_q_count, total_q, patterns, taxonomy, custom_qs) ==
    [topic |-> topic_text, syllabus |-> syllabus,
     question_structure |-> question_instruction(patterns, custom_qs),
     taxonomy |-> taxonomy_instruction(taxonomy),
     custom |-> custom_questions_instruction(custom_qs),
     gen_q_count |-> gen_q_count, custom_q_count |-> custom_q_count,
     total_q |-> total_q]

\* the number input of a bucket: at most max(generated_questions_count, 1)
ClampTaxonomy(taxonomy, generated) ==
    [i \in DOMAIN taxonomy |->
        [taxonomy[i] EXCEPT !.count = Min({@, Max({generated, 1})})]]

TaxonomyTotal(taxonomy) == SeqSum([i \in DOMAIN taxonomy |-> taxonomy[i].count])

\* lines 379-388: st.error, st.warning, st.success or nothing
taxonomy_validation(taxonomy, generated) ==
    IF taxonomy # <<>> /\ generated > 0
    THEN IF TaxonomyTotal(taxonomy) > generated THEN "error"
         ELSE IF TaxonomyTotal(taxonomy) < generated THEN "warning"
         ELSE "success"
    ELSE "none"

\* create_pdf not called
PdfIdle ==
    /\ pdf_text = <<>>
    /\ pdf_content = <<>>
    /\ safe_content = <<>>
    /\ layout = <<>>
    /\ ppc = "idle"

\* the page before anything is typed (lines 112-124, 153-200)
BuilderIdle ==
    /\ mode = "Enter Topic"
    /\ topic = <<>>
    /\ syllabus_text = <<>>
    /\ question_patterns = <<DefaultPattern>>
    /\ custom_questions = <<>>
    /\ bloom_taxonomy = <<>>
    /\ taxonomy_report = "none"
    /\ generate_shown = FALSE
    /\ prompt = NoPrompt
    /\ run_calls = 0

PageIdle == BuilderIdle /\ PdfIdle

\* the page while the generate block handles a response
PageGenerating ==
    /\ mode = "Enter Topic"
    /\ topic = <<TW>>
    /\ syllabus_text = <<>>
    /\ question_patterns = <<[count |-> total_questions, marks |-> 2]>>
    /\ custom_questions = <<>>
    /\ bloom_taxonomy = <<>>
    /\ taxonomy_report = "none"
    /\ generate_shown = TRUE
    /\ prompt = master_prompt(topic, syllabus_text, total_questions, 0,
                              total_questions, question_patterns,
                              bloom_taxonomy, <<>>)
    /\ run_calls = 1
    /\ PdfIdle

(***************************************************************************)
(* GeminiLLM.run                                                           *)
(***************************************************************************)

\* Bodies of a status-200 response, as response.json() returns them.  An
\* absent key is a FALSE has* field, a JSON array is a sequence.
PartA == [hasText |-> TRUE,  text |-> <<W>>]
PartB == [hasText |-> TRUE,  text |-> <<V>>]
PartQ == [hasText |-> TRUE,  text |-> <<QX, W>>]
PartN == [hasText |-> FALSE, text |-> <<>>]
Cand(ps)  == [isNull |-> FALSE, hasContent |-> TRUE, hasParts |-> TRUE, parts |-> ps]
CandNoContent == [isNull |-> FALSE, hasContent |-> FALSE, hasParts |-> FALSE, parts |-> <<>>]
CandNoParts   == [isNull |-> FALSE, hasContent |-> TRUE, hasParts |-> FALSE, parts |-> <<>>]
CandNull      == [isNull |-> TRUE, hasContent |-> FALSE, hasParts |-> FALSE, parts |-> <<>>]
Body(cs)  == [hasCandidates |-> TRUE, candidates |-> cs]
BodyNoCandidates == [hasCandidates |-> FALSE, candidates |-> <<>>]

Bodies ==
    { Body(<<Cand(<<PartA, PartB>>)>>),
      Body(<<Cand(<<PartB>>), Cand(<<PartA>>)>>),
      Body(<<Cand(<<PartQ>>)>>),
      BodyNoCandidates,
      Body(<<>>),
      Body(<<CandNoContent>>),
      Body(<<CandNoParts>>),
      Body(<<Cand(<<>>)>>),
      Body(<<Cand(<<PartN>>)>>),
      Body(<<CandNull>>) }

\* data["candidates"][0]["content"]["parts"][0]["text"]: the text, or the
\* exception the subscripting raises.
Extract(data) ==
    IF ~data.hasCandidates THEN [kind |-> "KeyError", text |-> <<>>]
    ELSE IF Len(data.candidates) = 0 THEN [kind |-> "IndexError", text |-> <<>>]
    ELSE LET c == data.candidates[1] IN
      IF c.isNull THEN [kind |-> "TypeError", text |-> <<>>]
      ELSE IF ~c.hasContent THEN [kind |-> "KeyError", text |-> <<>>]
      ELSE IF ~c.hasParts THEN [kind |-> "KeyError", text |-> <<>>]
      ELSE IF Len(c.parts) = 0 THEN [kind |-> "IndexError", text |-> <<>>]
      ELSE IF ~c.parts[1].hasText THEN [kind |-> "KeyError", text |-> <<>>]
      ELSE [kind |-> "text", text |-> c.parts[1].text]

OtherStatuses == {500, 503}

Returned(t) == [kind |-> "text", text |-> t, msg |-> "-"]
Raised(k, m) == [kind |-> k, text |-> <<>>, msg |-> m]
NoResult == [kind |-> "running", text |-> <<>>, msg |-> "-"]

Outcome(k, st, b) == [kind |-> k, status |-> st, body |-> b]

\* RetryOrRaise with the test `attempt < retries`: the last attempt continues
RetryOrRaise_OffByOne(o, secs, err) ==
    /\ history' = Append(history, o)
    /\ IF attempt < retries
       THEN /\ waits' = Append(waits, secs)
            /\ attempt' = attempt + 1
            /\ UNCHANGED <<result, rpc>>
       ELSE /\ waits' = Append(waits, 0)
            /\ result' = Raised("RuntimeError", err)
            /\ rpc' = "done"
            /\ UNCHANGED attempt

\* One pass through the loop body ends either in `continue` after sleeping
\* `secs` seconds, or in the raise of `err` when no attempt is left.
RetryOrRaise(o, secs, err) ==
    /\ history' = Append(history, o)
    /\ IF attempt < retries - 1
       THEN /\ waits' = Append(waits, secs)
            /\ attempt' = attempt + 1
            /\ UNCHANGED <<result, rpc>>
       ELSE /\ waits' = Append(waits, 0)
            /\ result' = Raised("RuntimeError", err)
            /\ rpc' = "done"
            /\ UNCHANGED attempt

Finish(o, r) ==
    /\ history' = Append(history, o)
    /\ waits' = Append(waits, 0)
    /\ result' = r
    /\ rpc' = "done"
    /\ UNCHANGED attempt

InLoop == rpc = "loop" /\ attempt < retries

\* BackoffQuota without the attempt factor
BackoffQuota_Flat(a) == 5

BackoffQuota(a) == 5 * (a + 1)
BackoffStatus(a) == 2 * (a + 1)
BackoffConnection(a) == 2
BackoffTimeout(a) == 0

\* Status200 with KeyError/IndexError handled like a network error
Status200_ParseRetried ==
    /\ InLoop
    /\ \E b \in Bodies :
         LET x == Extract(b) IN
         /\ x.kind # "TypeError"
         /\ IF x.kind = "text"
            THEN Finish(Outcome("status", 200, b), Returned(x.text))
            ELSE RetryOrRaise(Outcome("status", 200, b), 2, "parse")
    /\ UNCHANGED <<retries, genVars, pageVars>>

\* status 200, body parsed, text extracted or KeyError/IndexError handled
Status200 ==
    /\ InLoop
    /\ \E b \in Bodies :
         LET x == Extract(b) IN
         /\ x.kind # "TypeError"
         /\ Finish(Outcome("status", 200, b),
                   IF x.kind = "text" THEN Returned(x.text)
                   ELSE Raised("RuntimeError", "parse"))
    /\ UNCHANGED <<retries, genVars, pageVars>>

\* status 200, subscripting a null raises TypeError, which no handler catches
Status200TypeError ==
    /\ InLoop
    /\ \E b \in Bodies :
         /\ Extract(b).kind = "TypeError"
         /\ Finish(Outcome("status", 200, b), Raised("TypeError", "subscript"))
    /\ UNCHANGED <<retries, genVars, pageVars>>

\* status 200, body is not JSON: response.json() raises a JSONDecodeError
\* that, depending on the installed requests, is a RequestException (caught
\* by the handler of line 74) or only a json.JSONDecodeError (line 81).
Status200NotJson ==
    /\ InLoop
    /\ \/ RetryOrRaise(Outcome("notjson", 200, BodyNoCandidates),
                       BackoffConnection(attempt), "network")
       \/ Finish(Outcome("notjson", 200, BodyNoCandidates),
                 Raised("RuntimeError", "parse"))
    /\ UNCHANGED <<retries, genVars, pageVars>>

Status429 ==
    /\ InLoop
    /\ RetryOrRaise(Outcome("status", 429, BodyNoCandidates),
                    BackoffQuota(attempt), "quota")
    /\ UNCHANGED <<retries, genVars, pageVars>>

\* Status400or403 falling into the branch of the other statuses
Status400or403_Retried ==
    /\ InLoop
    /\ \E st \in {400, 403} :
         RetryOrRaise(Outcome("status", st, BodyNoCandidates),
                      BackoffStatus(attempt), "status")
    /\ UNCHANGED <<retries, genVars, pageVars>>

Status400or403 ==
    /\ InLoop
    /\ \E st \in {400, 403} :
         Finish(Outcome("status", st, BodyNoCandidates),
                Raised("RuntimeError", "invalid"))
    /\ UNCHANGED <<retries, genVars, pageVars>>

StatusOther ==
    /\ InLoop
    /\ \E st \in OtherStatuses :
         RetryOrRaise(Outcome("status", st, BodyNoCandidates),
                      BackoffStatus(attempt), "status")
    /\ UNCHANGED <<retries, genVars, pageVars>>

ReadTimeout ==
    /\ InLoop
    /\ RetryOrRaise(Outcome("ReadTimeout", 0, BodyNoCandidates),
                    BackoffTimeout(attempt), "timeout")
    /\ UNCHANGED <<retries, genVars, pageVars>>

ConnectionError ==
    /\ InLoop
    /\ RetryOrRaise(Outcome("ConnectionError", 0, BodyNoCandidates),
                    BackoffConnection(attempt), "connection")
    /\ UNCHANGED <<retries, genVars, pageVars>>

RequestException ==
    /\ InLoop
    /\ RetryOrRaise(Outcome("RequestException", 0, BodyNoCandidates),
                    BackoffConnection(attempt), "network")
    /\ UNCHANGED <<retries, genVars, pageVars>>

\* the raise after the loop: reached only when range(retries) is empty
LoopExhausted ==
    /\ rpc = "loop"
    /\ attempt >= retries
    /\ result' = Raised("RuntimeError", "fallback")
    /\ rpc' = "done"
    /\ UNCHANGED <<retries, attempt, history, waits, genVars, pageVars>>

GenIdle ==
    /\ content = <<>>
    /\ total_questions = 0
    /\ given = <<>>
    /\ sections = [k \in {"notes", "roadmap", "resources", "qbank"} |-> <<>>]
    /\ questions_only = <<>>
    /\ answers_only = <<>>
    /\ pdfs = <<>>
    /\ display = <<>>
    /\ generation_id = 0
    /\ gpc = "idle"

InitRun ==
    /\ retries \in -1..MaxRetries
    /\ attempt = 0
    /\ history = <<>>
    /\ waits = <<>>
    /\ result = NoResult
    /\ rpc = "loop"
    /\ GenIdle
    /\ PageIdle

NextRun ==
    \/ Status200
    \/ Status200TypeError
    \/ Status200NotJson
    \/ Status429
    \/ Status400or403
    \/ StatusOther
    \/ ReadTimeout
    \/ ConnectionError
    \/ RequestException
    \/ LoopExhausted

SpecRun == InitRun /\ [][NextRun]_vars

(***************************************************************************)
(* Claims about GeminiLLM.run (specification SpecRun)                      *)
(***************************************************************************)


Attempts == Len(history)

\* attempt i (1-based) was followed by another pass through the loop
Retried(i) == i < Attempts \/ (i = Attempts /\ rpc = "loop")

IsWellFormed(b) ==
    /\ b.hasCandidates
    /\ Len(b.candidates) >= 1
    /\ ~b.candidates[1].isNull
    /\ b.candidates[1].hasContent
    /\ b.candidates[1].hasParts
    /\ Len(b.candidates[1].parts) >= 1
    /\ b.candidates[1].parts[1].hasText

IsOk200(o) == o.kind = "status" /\ o.status = 200 /\ IsWellFormed(o.body)
IsMalformed200(o) == o.kind = "status" /\ o.status = 200 /\ ~IsWellFormed(o.body)
Is429(o) == o.kind = "status" /\ o.status = 429
IsOtherStatus(o) == o.kind = "status" /\ o.status \notin {200, 429, 400, 403}
IsTransient(o) ==
    Is429(o) \/ IsOtherStatus(o) \/ o.kind \in {"ReadTimeout", "ConnectionError"}
AllTransient(n) == \A i \in 1..n : IsTransient(history[i])

\* C1: with retries = 3 and three consecutive 429 responses, run returns the
\* quota-exhausted sentinel text (recognised by is_quota_exhausted) and no
\* exception propagates.
C1_SentinelAfterThree429 ==
    (rpc = "done" /\ retries = 3 /\ Attempts = 3
        /\ \A i \in 1..3 : Is429(history[i]))
    => (result.kind = "text" /\ is_quota_exhausted(result.text))

\* C2: for retries >= 1 the number of attempts never exceeds retries; a
\* well-formed 200 after only transient outcomes ends the call at that
\* attempt with the first candidate's first text part; while every outcome
\* is transient the call goes on until exactly `retries` attempts are made
\* and then fails with a RuntimeError.
C2_RetryUntilSuccessOrExhausted ==
    retries >= 1 =>
      /\ Attempts <= retries
      /\ \A k \in 1..Attempts :
           (AllTransient(k - 1) /\ IsOk200(history[k])) =>
             /\ Attempts = k
             /\ rpc = "done"
             /\ result = Returned(history[k].body.candidates[1].parts[1].text)
      /\ AllTransient(Attempts) =>
           IF Attempts < retries
           THEN rpc = "loop" /\ result = NoResult
           ELSE rpc = "done" /\ result.kind = "RuntimeError"

C2_Witness ==
    /\ retries = 3 /\ Attempts = 3 /\ rpc = "done"
    /\ Is429(history[1]) /\ history[2].kind = "ReadTimeout"
    /\ IsOk200(history[3]) /\ result = Returned(<<V>>)

\* C3: a 400 or 403 ends the call on that attempt with an error: it is the
\* last attempt and no delay is waited after it.
C3_PermanentStatusFailsAtOnce ==
    \A k \in 1..Attempts :
      (history[k].kind = "status" /\ history[k].status \in {400, 403}) =>
        /\ Attempts = k
        /\ rpc = "done"
        /\ result.kind = "RuntimeError"
        /\ waits[k] = 0

C3_Witness ==
    /\ retries = 3 /\ Attempts = 2 /\ rpc = "done"
    /\ IsOtherStatus(history[1]) /\ history[2].status = 403
    /\ result.kind = "RuntimeError"

\* C4: a 200 whose parsed body lacks candidates[0].content.parts[0].text
\* ends the call on that attempt with an error, even if attempts remain.
C4_MalformedBodyFailsAtOnce ==
    \A k \in 1..Attempts :
      IsMalformed200(history[k]) =>
        /\ Attempts = k
        /\ rpc = "done"
        /\ result.kind \in {"RuntimeError", "TypeError"}
        /\ waits[k] = 0

C4_Witness ==
    /\ retries = 3 /\ Attempts = 1 /\ rpc = "done"
    /\ IsMalformed200(history[1]) /\ history[1].body = Body(<<Cand(<<>>)>>)
    /\ result = Raised("RuntimeError", "parse")

MinLength == 100

Keys == {"notes", "roadmap", "resources", "qbank"}
KeyIndex(k) ==
    CASE k = "notes" -> 1 [] k = "roadmap" -> 2 [] k = "resources" -> 3
      [] k = "qbank" -> 4
EmptySections == [k \in Keys |-> <<>>]

\* the lexemes each section pattern matches after (?:^|\n)\s*
section_patterns(k) ==
    CASE k = "notes" -> {N1, N1t}
      [] k = "roadmap" -> {R, Rt}
      [] k = "resources" -> {S, St}
      [] k = "qbank" -> {Q4, Q4t, QP}
qbank_fallback_pattern == {QP}
qpaper_start_pattern == {QP}

\* Starts (1-based) of a match of (?:^|\n)\s*<marker> whose marker is s[q]:
\* the start of the text or a "\n", followed by whitespace only up to q.
AnchorStarts(s, q) ==
    {x \in 1..q :
        /\ \A y \in x..(q - 1) : IsWs(s[y])
        /\ x = 1 \/ (x < q /\ s[x] = NL)}

\* re.search of an anchored pattern: match.start() (0-based), or -1
SearchAnchored(s, markers) ==
    LET qs == {q \in 1..Len(s) : s[q] \in markers /\ AnchorStarts(s, q) # {}} IN
    IF qs = {} THEN -1 ELSE Min(AnchorStarts(s, Min(qs))) - 1

\* re.search of a pattern without anchor, and str.find: start (0-based), or -1
SearchPlain(s, markers) ==
    LET qs == {q \in 1..Len(s) : s[q] \in markers} IN
    IF qs = {} THEN -1 ELSE Min(qs) - 1

section_positions(nc) ==
    [k \in {j \in Keys : SearchAnchored(nc, section_patterns(j)) # -1}
        |-> SearchAnchored(nc, section_patterns(k))]

\* end_idx of the span of k: the start of the next entry of ordered_sections
\* (sorted by position, equal positions in dictionary order), or len
end_idx_AlwaysEnd(nc, pos, k) == Len(nc)

end_idx(nc, pos, k) ==
    LET later == {j \in DOMAIN pos :
                    \/ pos[j] > pos[k]
                    \/ (pos[j] = pos[k] /\ KeyIndex(j) > KeyIndex(k))} IN
    IF later = {} THEN Len(nc) ELSE Min({pos[j] : j \in later})

\* lines 685-688: notes is the whole text when its span is empty
NotesRecovery_Skipped(secs, nc) == secs

NotesRecovery(secs, nc) ==
    IF secs["notes"] = <<>> THEN [secs EXCEPT !["notes"] = nc] ELSE secs

\* lines 690-697: the secondary search for the question paper marker
QbankFallback_Unanchored(secs, nc) ==
    IF secs["qbank"] = <<>> /\ SearchPlain(nc, qbank_fallback_pattern) # -1
    THEN [secs EXCEPT !["qbank"] =
            Strip(Slice(nc, SearchPlain(nc, qbank_fallback_pattern), Len(nc)))]
    ELSE secs

QbankFallback(secs, nc) ==
    IF secs["qbank"] = <<>> /\ SearchAnchored(nc, qbank_fallback_pattern) # -1
    THEN [secs EXCEPT !["qbank"] =
            Strip(Slice(nc, SearchAnchored(nc, qbank_fallback_pattern), Len(nc)))]
    ELSE secs

\* lines 658-697
SplitSectionsOf(nc) ==
    LET pos == section_positions(nc)
        spans == [k \in Keys |->
                    IF k \in DOMAIN pos
                    THEN Strip(Slice(nc, pos[k], end_idx(nc, pos, k)))
                    ELSE <<>>]
        primary == IF DOMAIN pos # {}
                   THEN NotesRecovery(spans, nc)
                   ELSE [EmptySections EXCEPT !["notes"] = nc]
    IN QbankFallback(primary, nc)

\* re.sub(start.*?(?:cue|$), "", s) with DOTALL: every stretch from a start
\* lexeme through the next cue, or through the end of the text when no cue
\* follows, is removed.  A lexeme of selfcue holds start and cue at once.
RECURSIVE SubFrom(_, _, _, _, _)
SubFrom(s, i, starts, cues, selfcue) ==
    IF i > Len(s) THEN <<>>
    ELSE IF s[i] \in selfcue THEN SubFrom(s, i + 1, starts, cues, selfcue)
    ELSE IF s[i] \in starts
         THEN LET js == {j \in (i + 1)..Len(s) : s[j] \in cues} IN
              IF js = {} THEN <<>>
              ELSE SubFrom(s, Min(js) + 1, starts, cues, selfcue)
    ELSE <<s[i]>> \o SubFrom(s, i + 1, starts, cues, selfcue)

\* line 721: SECTION\s*1.*?(?:QUESTIONS?:|$)
CleanQuestions(q) == Strip(SubFrom(q, 1, {N1, QP}, {QC}, {}))
\* line 722: SECTION\s*2.*?(?:ANSWER\s*KEY:?|$)
CleanAnswers(a) == Strip(SubFrom(a, 1, {R, A2}, {A2, AK}, {A2}))

\* (?=\n\s*<header>): s[k] is "\n" and whitespace only separates it from a header
HeaderAhead(s, k, hdr) ==
    /\ k <= Len(s)
    /\ s[k] = NL
    /\ \E m \in (k + 1)..Len(s) :
         s[m] = hdr /\ \A x \in (k + 1)..(m - 1) : IsWs(s[x])

\* re.findall of <header>\s*(.*?)(?=\n\s*<header>|\Z) from position i on: the
\* captured groups.  With sameLine the header is Question n (...) whose
\* greedy \([^\n]*\) runs to the last header of the line.
RECURSIVE FindBlocks(_, _, _, _)
FindBlocks(s, i, hdr, sameLine) ==
    LET hs == {h \in i..Len(s) : s[h] = hdr} IN
    IF hs = {} THEN <<>>
    ELSE LET h == Min(hs)
             e == IF sameLine
                  THEN Max({k \in h..Len(s) :
                             s[k] = hdr /\ \A x \in h..k : s[x] # NL})
                  ELSE h
             solid == {j \in (e + 1)..Len(s) : ~IsWs(s[j])}
             j == IF solid = {} THEN Len(s) + 1 ELSE Min(solid)
             stops == {k \in j..Len(s) : HeaderAhead(s, k, hdr)}
             k == IF stops = {} THEN Len(s) + 1 ELSE Min(stops)
         IN <<SubSeq(s, j, k - 1)>> \o FindBlocks(s, k, hdr, sameLine)

\* "\n\n".join(b.strip() for b in blocks).strip()
RECURSIVE JoinStripped(_)
JoinStripped(bs) ==
    IF bs = <<>> THEN <<>>
    ELSE IF Len(bs) = 1 THEN Strip(bs[1])
    ELSE Strip(bs[1]) \o <<NL, NL>> \o JoinStripped(Tail(bs))
JoinBlocks(bs) == Strip(JoinStripped(bs))

\* lines 750-753
FinalFallback_NoSentinel(q, a, qbank_text) ==
    IF a = <<>> /\ q = <<>> THEN <<qbank_text, <<>>>> ELSE <<q, a>>

FinalFallback(q, a, qbank_text) ==
    IF a = <<>> /\ q = <<>> THEN <<qbank_text, <<NAK>>>> ELSE <<q, a>>

\* lines 699-753: <<questions_only, answers_only>>
SplitQAOf(secs, nc) ==
    LET qbank == IF secs["qbank"] # <<>> THEN secs["qbank"] ELSE nc
        whole == RemoveCR(qbank)
        qp == SearchPlain(whole, qpaper_start_pattern)
        qbank_text == IF qp # -1 THEN Slice(whole, qp, Len(whole)) ELSE whole
        idx2 == SearchPlain(qbank_text, {R, A2})
    IN
    IF idx2 # -1
    THEN <<CleanQuestions(Strip(Slice(qbank_text, 0, idx2))),
           CleanAnswers(Strip(Slice(qbank_text, idx2, Len(qbank_text))))>>
    ELSE
      LET ak == SearchPlain(qbank_text, {AK})
          q1 == IF ak # -1 THEN Strip(Slice(qbank_text, 0, ak)) ELSE <<>>
          a1 == IF ak # -1 THEN Strip(Slice(qbank_text, ak + 1, Len(qbank_text)))
                ELSE <<>>
          answer_blocks == FindBlocks(qbank_text, 1, AB, FALSE)
          a2 == IF a1 = <<>> /\ answer_blocks # <<>>
                THEN JoinBlocks(answer_blocks) ELSE a1
          question_blocks == FindBlocks(qbank_text, 1, QB, TRUE)
          q2 == IF q1 = <<>> /\ question_blocks # <<>>
                THEN JoinBlocks(question_blocks) ELSE q1
      IN FinalFallback(q2, a2, qbank_text)

\* lines 757-807: the documents and the preview texts
Titles ==
    [n \in {"01_Notes", "02_Roadmap", "03_Resources", "04_QA"} |->
        CASE n = "01_Notes" -> "Structured Notes"
          [] n = "02_Roadmap" -> "Learning Roadmap"
          [] n = "03_Resources" -> "Important Resources"
          [] n = "04_QA" -> "Question Bank"]

qa_combined(q, a) ==
    Strip(Strip(<<HDR, NL, NL>> \o q) \o <<NL, NL, AKSEP, NL, NL>> \o a)

display_content(secs, q, a, total) ==
    [n \in (IF total > 0
            THEN {"01_Notes", "02_Roadmap", "03_Resources", "04_QA"}
            ELSE {"01_Notes", "02_Roadmap", "03_Resources"}) |->
        CASE n = "01_Notes" -> secs["notes"]
          [] n = "02_Roadmap" -> secs["roadmap"]
          [] n = "03_Resources" -> secs["resources"]
          [] n = "04_QA" -> qa_combined(q, a)]

\* create_pdf(title, text) is kept as its two arguments
create_pdf(title, text) == [title |-> title, text |-> text]

\* a document set that has the question bank whatever the total
pdf_documents_AlwaysQA(secs, q, a, total) ==
    [n \in {"01_Notes", "02_Roadmap", "03_Resources", "04_QA"} |->
        create_pdf(Titles[n],
            CASE n = "01_Notes" -> secs["notes"]
              [] n = "02_Roadmap" -> secs["roadmap"]
              [] n = "03_Resources" -> secs["resources"]
              [] n = "04_QA" -> qa_combined(q, a))]

\* lines 782-787 and 797-801: the pdfs dict
pdf_documents(secs, q, a, total) ==
    [n \in (IF total > 0
            THEN {"01_Notes", "02_Roadmap", "03_Resources", "04_QA"}
            ELSE {"01_Notes", "02_Roadmap", "03_Resources"}) |->
        create_pdf(Titles[n],
            CASE n = "01_Notes" -> secs["notes"]
              [] n = "02_Roadmap" -> secs["roadmap"]
              [] n = "03_Resources" -> secs["resources"]
              [] n = "04_QA" -> qa_combined(q, a))]

normalized_content == RemoveCR(content)

\* lines 642-644
StopQuota ==
    /\ gpc = "validate"
    /\ is_quota_exhausted(content)
    /\ gpc' = "stopped"
    /\ UNCHANGED <<content, total_questions, given, sections, questions_only,
                   answers_only, pdfs, display, generation_id, runVars, pageVars>>

\* lines 646-651
StopShort ==
    /\ gpc = "validate"
    /\ ~is_quota_exhausted(content)
    /\ (content = <<>> \/ TextLen(Strip(content)) < MinLength)
    /\ gpc' = "stopped"
    /\ UNCHANGED <<content, total_questions, given, sections, questions_only,
                   answers_only, pdfs, display, generation_id, runVars, pageVars>>

\* line 653
ValidateOk ==
    /\ gpc = "validate"
    /\ ~is_quota_exhausted(content)
    /\ ~(content = <<>> \/ TextLen(Strip(content)) < MinLength)
    /\ gpc' = "sections"
    /\ UNCHANGED <<content, total_questions, given, sections, questions_only,
                   answers_only, pdfs, display, generation_id, runVars, pageVars>>

SplitSections ==
    /\ gpc = "sections"
    /\ sections' = SplitSectionsOf(normalized_content)
    /\ gpc' = "qa"
    /\ UNCHANGED <<content, total_questions, given, questions_only,
                   answers_only, pdfs, display, generation_id, runVars, pageVars>>

SplitQA ==
    /\ gpc = "qa"
    /\ LET qa == SplitQAOf(sections, normalized_content) IN
         /\ questions_only' = qa[1]
         /\ answers_only' = qa[2]
    /\ gpc' = "pdfs"
    /\ UNCHANGED <<content, total_questions, given, sections, pdfs, display,
                   generation_id, runVars, pageVars>>

\* lines 757-811
CreatePdfs ==
    /\ gpc = "pdfs"
    /\ pdfs' = pdf_documents(sections, questions_only, answers_only,
                             total_questions)
    /\ display' = display_content(sections, questions_only, answers_only,
                                  total_questions)
    /\ generation_id' = generation_id + 1
    /\ gpc' = "done"
    /\ UNCHANGED <<content, total_questions, given, sections, questions_only,
                   answers_only, runVars, pageVars>>

RunIdle ==
    /\ retries = 0
    /\ attempt = 0
    /\ history = <<>>
    /\ waits = <<>>
    /\ result = NoResult
    /\ rpc = "idle"

GenLocals ==
    /\ sections = EmptySections
    /\ questions_only = <<>>
    /\ answers_only = <<>>
    /\ pdfs = <<>>
    /\ display = <<>>
    /\ generation_id = 0
    /\ gpc = "validate"

\* responses of up to MaxLen lexemes
Alphabet == {W, NL, CR, QX, N1, R, S, Q4, QP, QC, A2, AK, QB, AB}
Texts == UNION {[1..n -> Alphabet] : n \in 0..MaxLen}
TotalChoices == {0, 4}

InitGen ==
    /\ content \in Texts
    /\ total_questions \in TotalChoices
    /\ given = <<>>
    /\ GenLocals
    /\ RunIdle
    /\ PageGenerating

NextGen ==
    \/ StopQuota
    \/ StopShort
    \/ ValidateOk
    \/ SplitSections
    \/ SplitQA
    \/ CreatePdfs

SpecGen == InitGen /\ [][NextGen]_vars

(***************************************************************************)
(* Responses that follow the four-section layout                           *)
(***************************************************************************)
KeyOrder == <<"notes", "roadmap", "resources", "qbank">>
VerboseMarker == [k \in Keys |->
    CASE k = "notes" -> N1 [] k = "roadmap" -> R [] k = "resources" -> S
      [] k = "qbank" -> Q4]
TerseMarker == [k \in Keys |->
    CASE k = "notes" -> N1t [] k = "roadmap" -> Rt [] k = "resources" -> St
      [] k = "qbank" -> Q4t]

\* bodies: prose, possibly of several lines, possibly naming a marker in
\* the middle of a line; none has a marker at the start of a line
BodyTexts ==
    { <<W>>, <<V>>, <<W, NL, V>>, <<W, R>>, <<V, QP, V>> }
Preambles == { <<>>, <<W, NL>> }
Separators == { <<NL>>, <<NL, NL>> }

Givens ==
    {[pre |-> p, sep |-> sp,
      markers |-> [k \in Keys |-> IF k \in terse THEN TerseMarker[k]
                                  ELSE VerboseMarker[k]],
      bodies |-> b] :
        p \in Preambles, sp \in Separators, terse \in SUBSET Keys,
        b \in {f \in [Keys -> BodyTexts] :
                 \A j, k \in Keys : j # k => f[j] # f[k]}}

PartOf(g, k) == <<g.markers[k]>> \o g.sep \o g.bodies[k]
Template(g) ==
    g.pre \o PartOf(g, "notes") \o g.sep \o PartOf(g, "roadmap") \o g.sep
          \o PartOf(g, "resources") \o g.sep \o PartOf(g, "qbank")

InitRoundTrip ==
    /\ given \in Givens
    /\ content = Template(given)
    /\ total_questions \in TotalChoices
    /\ GenLocals
    /\ RunIdle
    /\ PageGenerating

NextRoundTrip ==
    \/ ValidateOk
    \/ SplitSections
    \/ SplitQA
    \/ CreatePdfs

SpecRoundTrip == InitRoundTrip /\ [][NextRoundTrip]_vars

(***************************************************************************)
(* The page as the user drives it.  Every event reruns the script: the     *)
(* widgets give their values, a button handler changes a list and reruns,  *)
(* and the run ends with the page rendered from the session state.  The    *)
(* locals of the generate block do not outlive the run that set them.      *)
(***************************************************************************)
TopicChoices == { <<>>, <<SP>>, <<TW>> }
SyllabusChoices == { <<>>, <<SY>> }
CountChoices == {0, 2, 4}
MarksChoices == {2, 5}
CustomTextChoices == { <<>>, <<SP>>, <<"explain", SP, "tcp">> }
LevelChoices == {"Understanding", "Applying"}
BucketCountChoices == {1, 2, 4}

\* lines 274-297: each row shows the level detected for its text
ShownCustom(cqs) ==
    [i \in DOMAIN cqs |->
        [cqs[i] EXCEPT !.bloom_level = detect_bloom_level(cqs[i].text)]]

\* a Generate button that a mismatch of the taxonomy hides
GenerateOffered_UnlessMismatch(ready, report) ==
    ready /\ report \notin {"error", "warning"}

\* a Generate button that is always there
GenerateOffered_Always(ready, report) == TRUE

\* lines 598-599: the Generate button is there when the input is ready
GenerateOffered(ready, report) == ready

\* a run of the script that is not a click on Generate, with input m, t, s
\* and the lists as the handlers left them
Rerun(m, t, s, patterns, cqs, taxonomy) ==
    LET ready == input_ready(m, t, s)
        generated == generated_questions_count(patterns)
        shown == IF ready THEN ShownCustom(cqs) ELSE cqs
        clamped == IF ready THEN ClampTaxonomy(taxonomy, generated)
                   ELSE taxonomy
        report == IF ready THEN taxonomy_validation(clamped, generated)
                  ELSE "none"
    IN
    /\ mode' = m
    /\ topic' = t
    /\ syllabus_text' = s
    /\ question_patterns' = patterns
    /\ custom_questions' = shown
    /\ bloom_taxonomy' = clamped
    /\ total_questions' =
         IF ready THEN generated + Len(active_custom_questions(shown)) ELSE 0
    /\ taxonomy_report' = report
    /\ generate_shown' = GenerateOffered(ready, report)
    /\ content' = <<>>
    /\ sections' = EmptySections
    /\ questions_only' = <<>>
    /\ answers_only' = <<>>
    /\ prompt' = NoPrompt
    /\ gpc' = "idle"
    /\ UNCHANGED <<given, pdfs, display, generation_id, run_calls, runVars,
                   pdfVars>>

BuilderShown == input_ready(mode, topic, syllabus_text)

\* lines 153-173
SetMode ==
    \E m \in {"Enter Topic", "Upload Syllabus"} :
        /\ m # mode
        /\ Rerun(m, <<>>, <<>>, question_patterns, custom_questions,
                 bloom_taxonomy)

SetTopic ==
    \E t \in TopicChoices :
        /\ mode = "Enter Topic"
        /\ t # topic
        /\ Rerun(mode, t, <<>>, question_patterns, custom_questions,
                 bloom_taxonomy)

\* an upload whose text cannot be extracted leaves syllabus_text empty and
\* stops the script
UploadSyllabus ==
    \E s \in SyllabusChoices :
        /\ mode = "Upload Syllabus"
        /\ s # syllabus_text
        /\ Rerun(mode, <<>>, s, question_patterns, custom_questions,
                 bloom_taxonomy)

\* lines 207-239
SetPatternCount ==
    \E i \in DOMAIN question_patterns, n \in CountChoices :
        /\ BuilderShown
        /\ n # question_patterns[i].count
        /\ Rerun(mode, topic, syllabus_text,
                 [question_patterns EXCEPT ![i].count = n],
                 custom_questions, bloom_taxonomy)

SetPatternMarks ==
    \E i \in DOMAIN question_patterns, m \in MarksChoices :
        /\ BuilderShown
        /\ m # question_patterns[i].marks
        /\ Rerun(mode, topic, syllabus_text,
                 [question_patterns EXCEPT ![i].marks = m],
                 custom_questions, bloom_taxonomy)

AddPattern ==
    /\ BuilderShown
    /\ Len(question_patterns) < MaxPatterns
    /\ Rerun(mode, topic, syllabus_text,
             Append(question_patterns, AddedPattern),
             custom_questions, bloom_taxonomy)

\* the remove button of a row that drops the row whatever the length
remove_pattern_Unguarded(patterns, i) == RemoveAt(patterns, i)

\* lines 236-239: the last row stays
remove_pattern(patterns, i) ==
    IF Len(patterns) > 1 THEN RemoveAt(patterns, i) ELSE patterns

RemovePattern ==
    \E i \in DOMAIN question_patterns :
        /\ BuilderShown
        /\ Rerun(mode, topic, syllabus_text,
                 remove_pattern(question_patterns, i),
                 custom_questions, bloom_taxonomy)

\* lines 274-314
SetCustomTextTo(i, t) ==
    /\ BuilderShown
    /\ i \in DOMAIN custom_questions
    /\ t # custom_questions[i].text
    /\ Rerun(mode, topic, syllabus_text, question_patterns,
             [custom_questions EXCEPT ![i].text = t], bloom_taxonomy)

SetCustomText ==
    \E i \in DOMAIN custom_questions, t \in CustomTextChoices :
        SetCustomTextTo(i, t)

SetCustomMarks ==
    \E i \in DOMAIN custom_questions, m \in MarksChoices :
        /\ BuilderShown
        /\ m # custom_questions[i].marks
        /\ Rerun(mode, topic, syllabus_text, question_patterns,
                 [custom_questions EXCEPT ![i].marks = m], bloom_taxonomy)

AddCustom ==
    /\ BuilderShown
    /\ Len(custom_questions) < MaxCustom
    /\ Rerun(mode, topic, syllabus_text, question_patterns,
             Append(custom_questions, AddedCustom), bloom_taxonomy)

RemoveCustom ==
    \E i \in DOMAIN custom_questions :
        /\ BuilderShown
        /\ Rerun(mode, topic, syllabus_text, question_patterns,
                 RemoveAt(custom_questions, i), bloom_taxonomy)

\* lines 342-377
SetBucketLevel ==
    \E i \in DOMAIN bloom_taxonomy, l \in LevelChoices :
        /\ BuilderShown
        /\ l # bloom_taxonomy[i].level
        /\ Rerun(mode, topic, syllabus_text, question_patterns,
                 custom_questions, [bloom_taxonomy EXCEPT ![i].level = l])

SetBucketCount ==
    \E i \in DOMAIN bloom_taxonomy, n \in BucketCountChoices :
        /\ BuilderShown
        /\ n # bloom_taxonomy[i].count
        /\ n <= Max({generated_questions_count(question_patterns), 1})
        /\ Rerun(mode, topic, syllabus_text, question_patterns,
                 custom_questions, [bloom_taxonomy EXCEPT ![i].count = n])

AddBucket ==
    /\ BuilderShown
    /\ Len(bloom_taxonomy) < MaxBuckets
    /\ Rerun(mode, topic, syllabus_text, question_patterns,
             custom_questions, Append(bloom_taxonomy, AddedBucket))

RemoveBucket ==
    \E i \in DOMAIN bloom_taxonomy :
        /\ BuilderShown
        /\ Rerun(mode, topic, syllabus_text, question_patterns,
                 custom_questions, RemoveAt(bloom_taxonomy, i))

\* what gemini.run can give the page: a text, a RuntimeError, or another
\* exception
ResponseTexts ==
    { <<W>>, <<QX, W>>, <<W, NL, V>>,
      <<N1, W, NL, Q4, QB, W, NL, AK, AB, V>> }
RunResults ==
    {Returned(t) : t \in ResponseTexts}
    \cup {Raised("RuntimeError", "status"), Raised("TypeError", "parse")}

\* lines 655-753 on each text gemini.run can give
Segmentation ==
    [t \in ResponseTexts |->
        LET nc == RemoveCR(t)
            secs == SplitSectionsOf(nc)
            qa == SplitQAOf(secs, nc)
        IN [sections |-> secs, questions_only |-> qa[1],
            answers_only |-> qa[2]]]
Unsegmented ==
    [sections |-> EmptySections, questions_only |-> <<>>, answers_only |-> <<>>]

\* lines 641-651: the checks a returned text has to pass
Accepted(r) ==
    /\ r.kind = "text"
    /\ ~is_quota_exhausted(r.text)
    /\ ~(r.text = <<>> \/ TextLen(Strip(r.text)) < MinLength)

\* a generate block that empties the session state when it stops
Store_ClearedOnStop(ok, docs, previews) ==
    IF ok
    THEN /\ pdfs' = docs
         /\ display' = previews
         /\ generation_id' = generation_id + 1
    ELSE /\ pdfs' = <<>>
         /\ display' = <<>>
         /\ UNCHANGED generation_id

\* lines 633, 639, 644, 651 (st.stop) and 809-811
Store(ok, docs, previews) ==
    IF ok
    THEN /\ pdfs' = docs
         /\ display' = previews
         /\ generation_id' = generation_id + 1
    ELSE UNCHANGED <<pdfs, display, generation_id>>

\* lines 598-811: a click on Generate, with what gemini.run then gives
GenerateFrom(results) ==
    /\ generate_shown
    /\ run_calls < MaxGenerations
    /\ \E r \in results :
         LET generated == generated_questions_count(question_patterns)
             active == active_custom_questions(custom_questions)
             total == generated + Len(active)
             ok == Accepted(r)
             seg == IF ok THEN Segmentation[r.text] ELSE Unsegmented
         IN
         /\ total_questions' = total
         /\ prompt' = master_prompt(topic, syllabus_text, generated,
                                    Len(active), total, question_patterns,
                                    bloom_taxonomy, active)
         /\ run_calls' = run_calls + 1
         /\ content' = r.text
         /\ sections' = seg.sections
         /\ questions_only' = seg.questions_only
         /\ answers_only' = seg.answers_only
         /\ Store(ok,
                  pdf_documents(seg.sections, seg.questions_only,
                                seg.answers_only, total),
                  display_content(seg.sections, seg.questions_only,
                                  seg.answers_only, total))
         /\ gpc' = IF ok THEN "done" ELSE "stopped"
    /\ UNCHANGED <<given, inputVars, builderVars, runVars, pdfVars>>

Generate == GenerateFrom(RunResults)

\* Generate while the service is down
GenerateUnserved == GenerateFrom({Raised("RuntimeError", "status")})

InitPage ==
    /\ GenIdle
    /\ RunIdle
    /\ PageIdle

\* the page once a topic is typed
InitTopic ==
    /\ content = <<>>
    /\ total_questions = generated_questions_count(<<DefaultPattern>>)
    /\ given = <<>>
    /\ sections = EmptySections
    /\ questions_only = <<>>
    /\ answers_only = <<>>
    /\ pdfs = <<>>
    /\ display = <<>>
    /\ generation_id = 0
    /\ gpc = "idle"
    /\ RunIdle
    /\ mode = "Enter Topic"
    /\ topic = <<TW>>
    /\ syllabus_text = <<>>
    /\ question_patterns = <<DefaultPattern>>
    /\ custom_questions = <<>>
    /\ bloom_taxonomy = <<>>
    /\ taxonomy_report = "none"
    /\ generate_shown = TRUE
    /\ prompt = NoPrompt
    /\ run_calls = 0
    /\ PdfIdle

\* input, the counts of the patterns, the custom questions, Generate
Next ==
    \/ SetMode
    \/ SetTopic
    \/ UploadSyllabus
    \/ SetPatternCount
    \/ SetCustomText
    \/ SetCustomMarks
    \/ AddCustom
    \/ RemoveCustom
    \/ Generate

Spec == InitPage /\ [][Next]_vars

\* the patterns and the custom questions, and the prompt made of them
NextPrompt ==
    \/ SetPatternCount
    \/ SetPatternMarks
    \/ AddPattern
    \/ RemovePattern
    \/ SetCustomText
    \/ AddCustom
    \/ RemoveCustom
    \/ GenerateUnserved

SpecPrompt == InitTopic /\ [][NextPrompt]_vars

\* the patterns and the taxonomy
NextBuilder ==
    \/ SetTopic
    \/ SetPatternCount
    \/ AddPattern
    \/ RemovePattern
    \/ SetBucketLevel
    \/ SetBucketCount
    \/ AddBucket
    \/ RemoveBucket

SpecBuilder == InitPage /\ [][NextBuilder]_vars

\* one custom question, typed into the empty first row
QuestionTexts == UNION {[1..n -> QuestionWords] : n \in 0..MaxWords}

TypeQuestion ==
    \E t \in QuestionTexts :
        /\ Len(custom_questions) > 0
        /\ custom_questions[1].text = <<>>
        /\ SetCustomTextTo(1, t)

NextBloom ==
    \/ AddCustom
    \/ TypeQuestion
    \/ RemoveCustom

SpecBloom == InitTopic /\ [][NextBloom]_vars

\* the add and remove buttons of the three lists, with the edits of the
\* rows that do not touch the patterns
NextLists ==
    \/ AddPattern
    \/ RemovePattern
    \/ AddCustom
    \/ SetCustomMarks
    \/ RemoveCustom
    \/ AddBucket
    \/ SetBucketLevel
    \/ SetBucketCount
    \/ RemoveBucket

SpecLists == InitTopic /\ [][NextLists]_vars

(***************************************************************************)
(* create_pdf (src/pdf_helper.py): the Document Formatter                  *)
(*                                                                         *)
(* The content is a sequence of characters; a word that no rule looks      *)
(* into is one element.                                                    *)
(***************************************************************************)
MaxChars == 4

BulletCh   == "U+2022"    \* the bullet, replaced by "-"
EmDashCh   == "U+2014"    \* the em dash, replaced by "--"
EllipsisCh == "U+2026"    \* the ellipsis, replaced by "..."
BoxCh      == "U+2550"    \* the double rule of the question paper: not in
                          \* the table, not in latin-1
QN  == "Question"
AN  == "Answer"
KQ  == "Questions"        \* a keyword of the section labels
SEC == "Section"          \* the keyword followed by a number
Letters == {"a", "Important", "review", "this", QN, AN, KQ, SEC}
IsDigit(c) == c \in {"1", "2"}
IsWordChar(c) == IsDigit(c) \/ c \in Letters

\* a table without the bullet
unicode_replacements_NoBullet(c) ==
    CASE c = EmDashCh -> <<"-", "-">>
      [] c = EllipsisCh -> <<".", ".", ".">>
      [] OTHER -> <<c>>

\* lines 30-47, three of the sixteen entries; no replacement text holds a
\* key of the table, so the order of the replacements of lines 49-50 does
\* not matter
unicode_replacements(c) ==
    CASE c = BulletCh -> <<"-">>
      [] c = EmDashCh -> <<"-", "-">>
      [] c = EllipsisCh -> <<".", ".", ".">>
      [] OTHER -> <<c>>

\* lines 49-50
RECURSIVE Replaced(_)
Replaced(s) ==
    IF s = <<>> THEN <<>> ELSE unicode_replacements(Head(s)) \o Replaced(Tail(s))

\* a character that latin-1 can encode
IsLatin1(c) == c \notin {BulletCh, EmDashCh, EllipsisCh, BoxCh}

\* line 53: encode("latin-1", "ignore").decode("latin-1")
Latin1Ignore(s) == SelectSeq(s, IsLatin1)

\* line 55: split("\n")
RECURSIVE SplitLines(_)
SplitLines(s) ==
    LET nls == {i \in DOMAIN s : s[i] = NL} IN
    IF nls = {} THEN <<s>>
    ELSE <<SubSeq(s, 1, Min(nls) - 1)>>
           \o SplitLines(SubSeq(s, Min(nls) + 1, Len(s)))

HasPrefix(line, p) == Len(line) >= Len(p) /\ SubSeq(line, 1, Len(p)) = p

\* \s*:?$
ColonEnd(s) == \A i \in DOMAIN s : s[i] = SP \/ (i = Len(s) /\ s[i] = ":")

\* line 86: a keyword, or SECTION\s+\d+, then \s*:?$; any case
IsSectionLabel(line) ==
    \/ line[1] = KQ /\ ColonEnd(Tail(line))
    \/ /\ line[1] = SEC
       /\ \E k \in 2..Len(line), m \in 3..Len(line) :
            /\ k < m
            /\ \A i \in 2..k : line[i] = SP
            /\ \A i \in (k + 1)..m : IsDigit(line[i])
            /\ ColonEnd(SubSeq(line, m + 1, Len(line)))

\* line 96: ^[=\-]{3,}$
IsSeparator(line) == Len(line) >= 3 /\ \A i \in DOMAIN line : line[i] \in {"=", "-"}

\* line 103: ^(Question\s*\d+|Answer\s*\d+)\b
IsQALabel(line) ==
    /\ line[1] \in {QN, AN}
    /\ \E k \in 1..Len(line), m \in 2..Len(line) :
         /\ k < m
         /\ \A i \in 2..k : line[i] = SP
         /\ \A i \in (k + 1)..m : IsDigit(line[i])
         /\ m = Len(line) \/ ~IsWordChar(line[m + 1])

\* line 112: "**" in line
HasBoldMark(line) == \E i \in 1..(Len(line) - 1) : line[i] = "*" /\ line[i + 1] = "*"

\* line 119: startswith(("- ", "* "))
IsBullet(line) == HasPrefix(line, <<"-", SP>>) \/ HasPrefix(line, <<"*", SP>>)

\* line 126: ^\d+[\.)]
IsNumbered(line) ==
    \E m \in 1..(Len(line) - 1) :
        /\ \A i \in 1..m : IsDigit(line[i])
        /\ line[m + 1] \in {".", ")"}

\* line 114: replace("**", "")
RECURSIVE RemoveBoldMarks(_)
RemoveBoldMarks(line) ==
    IF Len(line) < 2 THEN line
    ELSE IF line[1] = "*" /\ line[2] = "*"
         THEN RemoveBoldMarks(SubSeq(line, 3, Len(line)))
    ELSE <<line[1]>> \o RemoveBoldMarks(Tail(line))

\* line 90: upper()
UpperCh(c) ==
    CASE c = "a" -> "A" [] c = KQ -> "QUESTIONS" [] c = SEC -> "SECTION"
      [] c = QN -> "QUESTION" [] c = AN -> "ANSWER"
      [] c = "Important" -> "IMPORTANT" [] c = "review" -> "REVIEW"
      [] c = "this" -> "THIS" [] OTHER -> c
Upper(line) == [i \in DOMAIN line |-> UpperCh(line[i])]

Styled(style, text) == [style |-> style, text |-> text]

\* the chain with the bullet tried before the bold mark
styled_line_BulletFirst(raw_line) ==
    LET line == Strip(raw_line) IN
    IF line = <<>> THEN Styled("empty", <<>>)
    ELSE IF HasPrefix(line, <<"#", "#", SP>>)
         THEN Styled("heading", Strip(SubSeq(line, 4, Len(line))))
    ELSE IF HasPrefix(line, <<"#", "#", "#", SP>>)
         THEN Styled("subheading", Strip(SubSeq(line, 5, Len(line))))
    ELSE IF IsSectionLabel(line) THEN Styled("label", Upper(line))
    ELSE IF IsSeparator(line) THEN Styled("separator", <<>>)
    ELSE IF IsQALabel(line) THEN Styled("qa", line)
    ELSE IF IsBullet(line)
         THEN Styled("bullet", <<"-", SP>> \o Strip(SubSeq(line, 3, Len(line))))
    ELSE IF HasBoldMark(line) THEN Styled("bold", RemoveBoldMarks(line))
    ELSE IF IsNumbered(line) THEN Styled("numbered", line)
    ELSE Styled("paragraph", line)

\* lines 57-138: the body of the loop, for one line
styled_line(raw_line) ==
    LET line == Strip(raw_line) IN
    IF line = <<>> THEN Styled("empty", <<>>)
    ELSE IF HasPrefix(line, <<"#", "#", SP>>)
         THEN Styled("heading", Strip(SubSeq(line, 4, Len(line))))
    ELSE IF HasPrefix(line, <<"#", "#", "#", SP>>)
         THEN Styled("subheading", Strip(SubSeq(line, 5, Len(line))))
    ELSE IF IsSectionLabel(line) THEN Styled("label", Upper(line))
    ELSE IF IsSeparator(line) THEN Styled("separator", <<>>)
    ELSE IF IsQALabel(line) THEN Styled("qa", line)
    ELSE IF HasBoldMark(line) THEN Styled("bold", RemoveBoldMarks(line))
    ELSE IF IsBullet(line)
         THEN Styled("bullet", <<"-", SP>> \o Strip(SubSeq(line, 3, Len(line))))
    ELSE IF IsNumbered(line) THEN Styled("numbered", line)
    ELSE Styled("paragraph", line)

\* lines 49-50
ReplaceUnicode ==
    /\ ppc = "idle"
    /\ pdf_content' = Replaced(pdf_text)
    /\ ppc' = "replaced"
    /\ UNCHANGED <<pdf_text, safe_content, layout, runVars, genVars,
                   inputVars, builderVars, callVars>>

\* line 53
MakeSafe ==
    /\ ppc = "replaced"
    /\ safe_content' = Latin1Ignore(pdf_content)
    /\ ppc' = "safe"
    /\ UNCHANGED <<pdf_text, pdf_content, layout, runVars, genVars,
                   inputVars, builderVars, callVars>>

\* lines 55-138
LayOutLines ==
    /\ ppc = "safe"
    /\ LET lines == SplitLines(safe_content) IN
         layout' = [i \in DOMAIN lines |-> styled_line(lines[i])]
    /\ ppc' = "done"
    /\ UNCHANGED <<pdf_text, pdf_content, safe_content, runVars, genVars,
                   inputVars, builderVars, callVars>>

\* contents of up to MaxChars characters, and some longer ones
PdfAlphabet == {"#", SP, "*", "-", "1", ".", "a", NL, BulletCh, BoxCh}
PdfSamples ==
    { <<"*", "*", "Important", ":", "*", "*", SP, "review", SP, "this", NL,
        "-", SP, "*", "*", "a", "*", "*", NL,
        "1", ".", SP, "*", "*", "a", "*", "*">>,
      <<BoxCh, BoxCh, BoxCh, NL, KQ, SP, ":", NL, BoxCh, BoxCh, BoxCh>>,
      <<SEC, SP, "1", ":", NL, SEC, SP, "a">>,
      <<BulletCh, SP, "a", NL, BoxCh, BoxCh>>,
      <<QN, SP, "1", SP, "*", "*", "a", "*", "*", NL, QN, "1", "a">>,
      <<AN, "2", ":", SP, "a", EllipsisCh>>,
      <<EmDashCh, "-", NL, "=", "=", "=", "=", NL, "=", "=">>,
      <<SP, BulletCh, SP, "a", SP, NL, "*", SP, "a", NL, "1", ")", "a">>,
      <<"#", "#", "#", SP, SP, "a", NL, "#", "#", SP, "#", SP, NL, "*", "*", "*">> }
PdfTexts == UNION {[1..n -> PdfAlphabet] : n \in 0..MaxChars} \cup PdfSamples

InitPdf ==
    /\ GenIdle
    /\ RunIdle
    /\ BuilderIdle
    /\ pdf_text \in PdfTexts
    /\ pdf_content = <<>>
    /\ safe_content = <<>>
    /\ layout = <<>>
    /\ ppc = "idle"

NextPdf ==
    \/ ReplaceUnicode
    \/ MakeSafe
    \/ LayOutLines

SpecPdf == InitPdf /\ [][NextPdf]_vars

(***************************************************************************)
(* Claims about the Response Segmenter and the Question/Answer Splitter    *)
(***************************************************************************)
Segmented == gpc \in {"qa", "pdfs", "done"}
QASplit == gpc \in {"pdfs", "done"}

IsSubstring(b, s) ==
    \E a \in 0..(Len(s) - Len(b)) : Slice(s, a, a + Len(b)) = b

NoSectionMarker ==
    \A k \in Keys : SearchAnchored(normalized_content, section_patterns(k)) = -1

\* C6: the splitter never leaves questions_only and answers_only both empty.
C6_NeverBothEmpty ==
    QASplit => ~(questions_only = <<>> /\ answers_only = <<>>)

\* C7: when no section pattern matches the response, notes is the whole
\* normalized response and roadmap, resources and qbank are empty, the
\* secondary qbank search included.
C7_NoMarkerAllInNotes ==
    (Segmented /\ NoSectionMarker) =>
        sections = [EmptySections EXCEPT !["notes"] = normalized_content]

C7_Witness ==
    /\ Segmented
    /\ NoSectionMarker
    /\ content = <<W, QP, CR>>
    /\ sections["notes"] = <<W, QP>>
    /\ sections["qbank"] = <<>>

\* offset (0-based) of the marker of the i-th section of a templated response
RECURSIVE MarkerAt(_, _)
MarkerAt(g, i) ==
    IF i = 1 THEN Len(g.pre)
    ELSE MarkerAt(g, i - 1) + Len(PartOf(g, KeyOrder[i - 1])) + Len(g.sep)
NextMarkerAt(g, i) == IF i = 4 THEN Len(Template(g)) ELSE MarkerAt(g, i + 1)

\* C8: for a response with the four markers in order, each followed by its
\* own body, every body is a substring of the span of its key, and the span
\* of a key is a stretch of the response that starts at its marker and ends
\* at or before the start of the next marker.
C8_RoundTrip ==
    (Segmented /\ given # <<>>) =>
        \A i \in 1..4 :
            LET k == KeyOrder[i] IN
            /\ IsSubstring(given.bodies[k], sections[k])
            /\ \E b \in MarkerAt(given, i)..NextMarkerAt(given, i) :
                 sections[k] = Slice(content, MarkerAt(given, i), b)

C8_Witness ==
    /\ gpc = "done"
    /\ given # <<>>
    /\ given.pre = <<W, NL>>
    /\ given.sep = <<NL, NL>>
    /\ given.bodies["notes"] = <<W, R>>
    /\ given.markers["roadmap"] = Rt
    /\ sections["notes"] = <<given.markers["notes"], NL, NL, W, R>>
    /\ sections["roadmap"] = <<Rt, NL, NL>> \o given.bodies["roadmap"]

\* after segmentation notes is not blank, it is the whole normalized response
\* when markers are found without the notes marker, and 01_Notes is made of it
C9_NotesState ==
    /\ Segmented =>
         /\ Strip(sections["notes"]) # <<>>
         /\ (~NoSectionMarker
               /\ SearchAnchored(normalized_content, section_patterns("notes")) = -1)
              => sections["notes"] = normalized_content
    /\ gpc = "done" =>
         /\ "01_Notes" \in DOMAIN pdfs
         /\ pdfs["01_Notes"] = create_pdf("Structured Notes", sections["notes"])
         /\ pdfs["01_Notes"].text # <<>>

\* a validated generation goes through every stage to "done"
C9_NoFailure ==
    /\ gpc = "sections" => gpc' = "qa"
    /\ gpc = "qa" => gpc' = "pdfs"
    /\ gpc = "pdfs" => gpc' = "done"

\* C9: once a response has passed validation, notes is never empty or
\* blank; when markers are found but none is the notes marker, notes is the
\* whole normalized response; no stage after validation fails, and the
\* generation ends with a 01_Notes document made from notes.
C9_NotesNeverEmpty == []C9_NotesState /\ [][C9_NoFailure]_vars

C9_Witness ==
    /\ gpc = "done"
    /\ content = <<CR, R, W>>
    /\ sections["roadmap"] = <<R, W>>
    /\ pdfs["01_Notes"].text = <<R, W>>

\* the lexemes the segmenter and the splitter look for
MarkerLexemes == {N1, R, S, Q4, QP, N1t, Rt, St, Q4t, A2, AK, QB, AB}
NoMarkerAtAll == \A i \in 1..Len(content) : content[i] \notin MarkerLexemes

\* C10: for a validated response without any marker and with
\* total_questions > 0, the splitter gives the whole normalized response as
\* question text and the sentinel as answer text, and 04_QA is produced
\* from the instruction header, that text (less its trailing whitespace)
\* and the sentinel.
C10_BestEffortQA ==
    /\ (QASplit /\ NoMarkerAtAll) =>
         /\ questions_only = normalized_content
         /\ answers_only = <<NAK>>
    /\ (gpc = "done" /\ NoMarkerAtAll /\ total_questions > 0) =>
         /\ "04_QA" \in DOMAIN pdfs
         /\ pdfs["04_QA"] =
              create_pdf("Question Bank",
                         Strip(<<HDR, NL, NL>> \o normalized_content)
                            \o <<NL, NL, AKSEP, NL, NL, NAK>>)
         /\ display["04_QA"] = pdfs["04_QA"].text

C10_Witness ==
    /\ gpc = "done"
    /\ total_questions = 4
    /\ content = <<W, NL, W>>
    /\ pdfs["04_QA"].text =
         <<HDR, NL, NL, W, NL, W, NL, NL, AKSEP, NL, NL, NAK>>

(***************************************************************************)
(* The question structure of the prompt (specification SpecPrompt)         *)
(***************************************************************************)
Generated == gpc \in {"done", "stopped"}
ActiveRows == {i \in DOMAIN custom_questions :
                 \E j \in DOMAIN custom_questions[i].text :
                     custom_questions[i].text[j] \notin {SP, NL, CR}}
PatternSum == SeqSum([i \in DOMAIN question_patterns |-> question_patterns[i].count])
CountOfMarks(m) ==
    SeqSum([i \in DOMAIN question_patterns |->
              IF question_patterns[i].marks = m
              THEN question_patterns[i].count ELSE 0])
    + Cardinality({i \in ActiveRows : custom_questions[i].marks = m})

\* C11: the question structure given to the service has exactly one line per
\* distinct marks value of the patterns and of the active custom questions,
\* in ascending order of marks, and the count of a line is the sum of the
\* counts of the patterns with these marks plus the number of active custom
\* questions with these marks; the single pattern of 4 questions of 2 marks
\* and no custom question give exactly the line "4 questions of 2 marks".
C11_MarkDistribution ==
    Generated =>
      LET lines == prompt.question_structure IN
      /\ \A i, j \in DOMAIN lines : i < j => lines[i].marks < lines[j].marks
      /\ {lines[i].marks : i \in DOMAIN lines}
           = {question_patterns[i].marks : i \in DOMAIN question_patterns}
             \cup {custom_questions[i].marks : i \in ActiveRows}
      /\ \A i \in DOMAIN lines : lines[i].count = CountOfMarks(lines[i].marks)
      /\ (question_patterns = <<[count |-> 4, marks |-> 2]>> /\ ActiveRows = {}
            => lines = <<[count |-> 4, marks |-> 2]>>)

\* two patterns of 5 marks and an active custom question of 2 marks: the
\* line of 2 marks comes first, the line of 5 marks adds the two patterns up
C11_Witness ==
    /\ Generated
    /\ question_patterns = <<[count |-> 4, marks |-> 5], [count |-> 2, marks |-> 5]>>
    /\ ActiveRows = {1}
    /\ prompt.question_structure
         = <<[count |-> 1, marks |-> 2], [count |-> 6, marks |-> 5]>>

\* C12: after any edits of the patterns and of the custom questions, the
\* total the page shows and the generate block puts into the prompt is the
\* sum of the pattern counts plus the number of custom
\* questions whose text is not blank after trimming; a blank custom question
\* adds to none of the total, the custom count, the mark distribution and
\* the custom question instruction.
C12_TotalQuestions ==
    /\ generate_shown => total_questions = PatternSum + Cardinality(ActiveRows)
    /\ Generated =>
         /\ total_questions = PatternSum + Cardinality(ActiveRows)
         /\ prompt.total_q = PatternSum + Cardinality(ActiveRows)
         /\ prompt.gen_q_count = PatternSum
         /\ prompt.custom_q_count = Cardinality(ActiveRows)
         /\ Len(prompt.custom) = Cardinality(ActiveRows)
         /\ \A i \in DOMAIN prompt.custom : prompt.custom[i].text # <<>>
         /\ SeqSum([i \in DOMAIN prompt.question_structure |->
                      prompt.question_structure[i].count])
              = PatternSum + Cardinality(ActiveRows)

\* a generation with a custom question of spaces only next to the patterns
C12_Witness ==
    /\ Generated
    /\ Len(custom_questions) > 0
    /\ custom_questions[1].text = <<SP>>
    /\ PatternSum > 0
    /\ prompt.total_q = PatternSum
    /\ prompt.custom = <<>>

(***************************************************************************)
(* Bloom detection (specification SpecBloom)                               *)
(***************************************************************************)
LevelScore(t, level) ==
    3 * Cardinality({k \in Range(BLOOM_KEYWORDS[level]) : StartsWith(t, k)})
    + Cardinality({k \in Range(BLOOM_KEYWORDS[level]) :
                     ~StartsWith(t, k) /\ Occurs(t, k)})
LevelFor(question_text, lvl) ==
    LET t == LowerText(Strip(question_text)) IN
    IF t = <<>> THEN lvl = "Not detected"
    ELSE IF \A j \in DOMAIN BLOOM_LEVELS : LevelScore(t, BLOOM_LEVELS[j]) = 0
    THEN lvl = "Understanding"
    ELSE \E i \in DOMAIN BLOOM_LEVELS :
           /\ lvl = BLOOM_LEVELS[i]
           /\ \A j \in DOMAIN BLOOM_LEVELS :
                /\ LevelScore(t, BLOOM_LEVELS[j]) <= LevelScore(t, lvl)
                /\ j < i => LevelScore(t, BLOOM_LEVELS[j]) < LevelScore(t, lvl)

\* C13: the level shown for a custom question depends on its text alone: it
\* is "Not detected" for an empty or whitespace-only text; otherwise each
\* level scores 3 for every trigger keyword the trimmed, lower-cased text
\* starts with and 1 for every other trigger keyword found in it, the level
\* of the greatest score wins, the first declared among equals, and the
\* level is "Understanding" when every score is zero.
C13_BloomDetection ==
    generate_shown =>
      \A i \in DOMAIN custom_questions :
          LevelFor(custom_questions[i].text, custom_questions[i].bloom_level)

\* "tcpexplainDefine": one keyword of Remembering and one of Understanding,
\* neither at the start
C13_Witness ==
    /\ generate_shown
    /\ Len(custom_questions) = 1
    /\ custom_questions[1].text = <<"tcp", "explain", "Define">>
    /\ custom_questions[1].bloom_level = "Remembering"

(***************************************************************************)
(* The stored documents and the calls of the service (specification Spec)  *)
(***************************************************************************)
CoreDocuments == {"01_Notes", "02_Roadmap", "03_Resources"}
Failed(text) ==
    \/ text = <<>>
    \/ text[1] = QX
    \/ TextLen(Strip(text)) < 100

\* C14: after a successful generation the stored documents have 04_QA if and
\* only if the total question count of that generation is above zero, they
\* always have 01_Notes, 02_Roadmap and 03_Resources, and the stored preview
\* texts have exactly the keys of the stored documents.
C14_DocumentSet ==
    /\ DOMAIN display = DOMAIN pdfs
    /\ generation_id > 0 => CoreDocuments \subseteq DOMAIN pdfs
    /\ DOMAIN pdfs \subseteq CoreDocuments \cup {"04_QA"}
    /\ gpc = "done" =>
         /\ generation_id > 0
         /\ "04_QA" \in DOMAIN pdfs
              <=> PatternSum + Cardinality(ActiveRows) > 0

\* a generation with no question at all: three documents
C14_Witness ==
    /\ gpc = "done"
    /\ PatternSum + Cardinality(ActiveRows) = 0
    /\ DOMAIN pdfs = CoreDocuments
    /\ DOMAIN display = CoreDocuments

\* C15: a click on Generate whose run ends in an error of the service, in
\* the quota sentinel or in a text of fewer than 100 characters after
\* trimming leaves the stored documents, the stored previews and the
\* generation identifier as they were; a run that passes the checks stores
\* new documents, new previews and a new identifier together, and nothing
\* else changes any of the three.
C15_StopKeepsStore ==
    [][/\ run_calls' # run_calls /\ Failed(content')
           => UNCHANGED <<pdfs, display, generation_id>>
       /\ run_calls' # run_calls /\ ~Failed(content')
           => /\ generation_id' # generation_id
              /\ CoreDocuments \subseteq DOMAIN pdfs'
              /\ display' = [n \in DOMAIN pdfs' |-> pdfs'[n].text]
       /\ run_calls' = run_calls
           => UNCHANGED <<pdfs, display, generation_id>>]_vars

\* a stopped run after a successful one: the first documents are still there
C15_Witness ==
    /\ gpc = "stopped"
    /\ run_calls = 2
    /\ generation_id = 1
    /\ CoreDocuments \subseteq DOMAIN pdfs

NotReady ==
    \/ mode = "Enter Topic" /\ \A i \in DOMAIN topic : topic[i] \in {SP, NL, CR}
    \/ mode = "Upload Syllabus"
         /\ \A i \in DOMAIN syllabus_text : syllabus_text[i] \in {SP, NL, CR}

\* C16: gemini.run is not called while the input is not ready (topic mode
\* with a blank topic, syllabus mode with no extracted text); it is called
\* only by a click on Generate with ready input, and once per click.
C16_CallsOnlyWhenReady ==
    [][/\ run_calls' # run_calls
           => /\ ~NotReady
              /\ run_calls' = run_calls + 1
              /\ gpc' \in {"done", "stopped"}
       /\ gpc' \in {"done", "stopped"} => run_calls' = run_calls + 1
       /\ NotReady' => gpc' = "idle"]_vars

\* one call made from an uploaded syllabus, and the topic mode with a topic
\* of spaces entered afterwards
C16_Witness ==
    /\ run_calls = 1
    /\ mode = "Enter Topic"
    /\ topic = <<SP>>
    /\ generation_id = 1

(***************************************************************************)
(* The taxonomy distribution (specification SpecBuilder)                   *)
(***************************************************************************)
BucketSum == SeqSum([i \in DOMAIN bloom_taxonomy |-> bloom_taxonomy[i].count])
Mismatch == bloom_taxonomy # <<>> /\ BucketSum # PatternSum

\* C17 as stated: whenever buckets exist and the sum of their counts differs
\* from the sum of the pattern counts, the pattern sum of zero included, the
\* page reports the mismatch, and the mismatch never takes Generate away.
C17_MismatchReported ==
    ~NotReady /\ Mismatch =>
        /\ taxonomy_report \in {"error", "warning"}
        /\ generate_shown

\* C17: with ready input and buckets, a pattern sum above zero is compared
\* with the sum of the bucket counts: more in the buckets is reported as an
\* error, fewer as a warning, equal as a success; with a pattern sum of zero
\* nothing is reported; Generate is offered in every one of these cases.
C17_MismatchReportedAboveZero ==
    ~NotReady =>
        /\ generate_shown
        /\ taxonomy_report =
             IF bloom_taxonomy = <<>> \/ PatternSum = 0 THEN "none"
             ELSE IF BucketSum > PatternSum THEN "error"
             ELSE IF BucketSum < PatternSum THEN "warning"
             ELSE "success"

\* two buckets for more questions than the patterns ask for
C17_Witness ==
    /\ PatternSum > 0
    /\ BucketSum > PatternSum
    /\ taxonomy_report = "error"
    /\ generate_shown

(***************************************************************************)
(* The SECTION 2 branch of the splitter (specification SpecGen)            *)
(***************************************************************************)
\* the qbank text after the trim of its preamble (lines 700-710)
QbankText ==
    LET qbank == IF sections["qbank"] # <<>> THEN sections["qbank"]
                 ELSE normalized_content
        whole == RemoveCR(qbank)
        qp == SearchPlain(whole, qpaper_start_pattern)
    IN IF qp # -1 THEN Slice(whole, qp, Len(whole)) ELSE whole
Section2At == SearchPlain(QbankText, {R, A2})
BeforeSection2 == Strip(Slice(QbankText, 0, Section2At))
FromSection2 == Strip(Slice(QbankText, Section2At, Len(QbankText)))
IsContent(t) == t \in {W, V, QB, AB}
ContentOf(s) == SelectSeq(s, IsContent)
HasCue(s, cues) == \E i \in DOMAIN s : s[i] \in cues

\* C18 as stated: when the qbank text holds "SECTION 2" the split is at its
\* first occurrence, the question text is made of what precedes it and the
\* answer text of what follows, and a side without its cue ("QUESTIONS:",
\* "ANSWER KEY") keeps its content.
C18_Section2Split ==
    (QASplit /\ Section2At # -1) =>
        /\ Range(questions_only) \subseteq Range(BeforeSection2)
        /\ Range(answers_only) \subseteq Range(FromSection2)
        /\ ~HasCue(BeforeSection2, {QC})
             => ContentOf(questions_only) = ContentOf(BeforeSection2)
        /\ ~HasCue(FromSection2, {A2, AK})
             => ContentOf(answers_only) = ContentOf(FromSection2)

(***************************************************************************)
(* The Document Formatter (specification SpecPdf)                          *)
(***************************************************************************)
Rules == <<"empty", "heading", "subheading", "label", "separator", "qa",
           "bold", "bullet", "numbered", "paragraph">>
Matches(rule, line) ==
    IF line = <<>> THEN rule = "empty"
    ELSE CASE rule = "empty" -> FALSE
           [] rule = "heading" -> HasPrefix(line, <<"#", "#", SP>>)
           [] rule = "subheading" -> HasPrefix(line, <<"#", "#", "#", SP>>)
           [] rule = "label" -> IsSectionLabel(line)
           [] rule = "separator" -> IsSeparator(line)
           [] rule = "qa" -> IsQALabel(line)
           [] rule = "bold" -> HasBoldMark(line)
           [] rule = "bullet" -> IsBullet(line)
           [] rule = "numbered" -> IsNumbered(line)
           [] rule = "paragraph" -> TRUE
NotStar(c) == c # "*"
SafeLines == SplitLines(safe_content)
TextLines == SplitLines(pdf_text)

\* C19: every line, stripped of its surrounding whitespace, gets the style
\* of the first rule that matches it in the order empty, "## " heading,
\* "### " heading, section label, separator, Question/Answer label, "**",
\* bullet, numbered list, paragraph, and of no other rule; a line with "**"
\* that none of the six earlier rules matches is bold, its text has no "**"
\* left and keeps every other character, also when the line starts with a
\* bullet marker or with a numeral.
C19_FirstMatchingRule ==
    ppc = "done" =>
      /\ Len(layout) = Len(SafeLines)
      /\ \A i \in DOMAIN layout :
           LET line == Strip(SafeLines[i]) IN
           /\ \E r \in DOMAIN Rules :
                /\ layout[i].style = Rules[r]
                /\ Matches(Rules[r], line)
                /\ \A q \in 1..(r - 1) : ~Matches(Rules[q], line)
           /\ (HasBoldMark(line) /\ \A q \in 1..6 : ~Matches(Rules[q], line))
                => /\ layout[i].style = "bold"
                   /\ ~HasBoldMark(layout[i].text)
                   /\ SelectSeq(layout[i].text, NotStar) = SelectSeq(line, NotStar)

\* "**Important:** review this", "- **a**" and "1. **a**": three bold lines
C19_Witness ==
    /\ ppc = "done"
    /\ Len(layout) = 3
    /\ layout[1] = Styled("bold", <<"Important", ":", SP, "review", SP, "this">>)
    /\ IsBullet(TextLines[2])
    /\ layout[2] = Styled("bold", <<"-", SP, "a">>)
    /\ IsNumbered(TextLines[3])
    /\ layout[3] = Styled("bold", <<"1", ".", SP, "a">>)

OnlyDropped(line) == line # <<>> /\ \A j \in DOMAIN line : line[j] = BoxCh
\* what follows the bullet and the space, as the classifier sees it
AfterBullet(line) == Strip(Latin1Ignore(Replaced(SubSeq(line, 3, Len(line)))))

\* C20 as stated: no line is classified before the table is applied and the
\* unrepresentable characters are dropped; every line that starts with the
\* Unicode bullet and a space is classified as a bullet line, every line
\* made only of dropped characters as an empty line, and every character
\* laid out is representable in latin-1.
C20_ReplacedThenClassified ==
    /\ ppc # "done" => layout = <<>>
    /\ ppc = "done" =>
         /\ Len(layout) = Len(TextLines)
         /\ \A i \in DOMAIN layout :
              /\ HasPrefix(TextLines[i], <<BulletCh, SP>>)
                   => layout[i].style = "bullet"
              /\ OnlyDropped(TextLines[i]) => layout[i].style = "empty"
              /\ \A j \in DOMAIN layout[i].text : IsLatin1(layout[i].text[j])

\* C20: no line is classified before the table is applied to the whole
\* content and the unrepresentable characters are dropped; a line that
\* starts with the Unicode bullet and a space is classified as a bullet line
\* when text without "**" follows the space, as a bold line when the text
\* that follows has "**", and as a paragraph "-" when nothing but
\* whitespace and dropped characters follows; a line made only of dropped
\* characters is classified as an empty line; every character laid out is
\* representable in latin-1.
C20_ReplacedThenClassifiedByRest ==
    /\ ppc # "done" => layout = <<>>
    /\ ppc \in {"safe", "done"} => safe_content = Latin1Ignore(Replaced(pdf_text))
    /\ ppc = "done" =>
         /\ Len(layout) = Len(TextLines)
         /\ \A i \in DOMAIN layout :
              /\ HasPrefix(TextLines[i], <<BulletCh, SP>>) =>
                   LET rest == AfterBullet(TextLines[i]) IN
                   IF rest = <<>> THEN layout[i] = Styled("paragraph", <<"-">>)
                   ELSE IF HasBoldMark(rest) THEN layout[i].style = "bold"
                   ELSE layout[i] = Styled("bullet", <<"-", SP>> \o rest)
              /\ OnlyDropped(TextLines[i]) => layout[i].style = "empty"
              /\ \A j \in DOMAIN layout[i].text : IsLatin1(layout[i].text[j])

\* the bullet, a space and a letter on the first line, two double rules on
\* the second
C20_Witness ==
    /\ ppc = "done"
    /\ pdf_text = <<BulletCh, SP, "a", NL, BoxCh, BoxCh>>
    /\ layout = <<Styled("bullet", <<"-", SP, "a">>), Styled("empty", <<>>)>>

(***************************************************************************)
(* The lengths of the three lists (specification SpecLists)                *)
(***************************************************************************)
\* C21: after any sequence of add and remove clicks the pattern list has at
\* least one row: on a list of one row a click changes nothing or appends
\* the added pattern; a custom question list of one row and a bucket list
\* of one row can each be emptied by their remove button.
C21_PatternListNeverEmpty ==
    /\ [](Len(question_patterns) >= 1)
    /\ [][Len(question_patterns) = 1 =>
            \/ question_patterns' = question_patterns
            \/ question_patterns' = Append(question_patterns, AddedPattern)]_vars
    /\ [](Len(custom_questions) = 1
            => ENABLED (RemoveCustom /\ custom_questions' = <<>>))
    /\ [](Len(bloom_taxonomy) = 1
            => ENABLED (RemoveBucket /\ bloom_taxonomy' = <<>>))

\* the first of two patterns removed: the added pattern is the only row;
\* the other two lists are empty
C21_Witness ==
    /\ question_patterns = <<AddedPattern>>
    /\ custom_questions = <<>>
    /\ bloom_taxonomy = <<>>

(***************************************************************************)
(* The results of GeminiLLM.run (specification SpecRun)                    *)
(***************************************************************************)
\* C22 as stated: run makes at most retries attempts and ends with a
\* returned text or with a raised RuntimeError, never with anything else;
\* with retries <= 0 it makes no attempt and raises a RuntimeError; no
\* delay is waited after the last permitted attempt.
C22_TextOrRuntimeError ==
    /\ Attempts <= IF retries > 0 THEN retries ELSE 0
    /\ Len(waits) = Attempts
    /\ rpc = "loop" => result = NoResult
    /\ rpc = "done" =>
         /\ result.kind \in {"text", "RuntimeError"}
         /\ retries <= 0 => Attempts = 0 /\ result.kind = "RuntimeError"
         /\ Attempts > 0 => waits[Attempts] = 0
    /\ (retries > 0 /\ Attempts = retries) => rpc = "done"

====
